---- MODULE Spec2Model ----
(***************************************************************************)
(* A model of steg, a least-significant-bits steganography codec:          *)
(*   src/src/lib.rs      header format, nibble numbers, byte encodings     *)
(*   src/src/encoder.rs  Encoder                                           *)
(*   src/src/decoder.rs  Decoder                                           *)
(*                                                                         *)
(* Bytes are naturals below 256.  A u64 is a sequence of four 16-bit limbs *)
(* <<l3, l2, l1, l0>>, most significant first, so that 64-bit values stay  *)
(* inside the integers the model checker computes with.                    *)
(***************************************************************************)
EXTENDS Integers, Sequences, FiniteSets, TLC

VARIABLES pc, build, encoder, cover_image, input_data, encode_output,
          encode_result, image_bytes, tamper, decode_result, output, call, ret

vars == <<pc, build, encoder, cover_image, input_data, encode_output,
          encode_result, image_bytes, tamper, decode_result, output, call, ret>>

codec_vars == <<build, encoder, cover_image, input_data, encode_output,
                encode_result, image_bytes, tamper, decode_result, output>>

(***************************************************************************)
(* Bounds of the model.                                                    *)
(***************************************************************************)
\* longest payload handed to the encoder
MaxPayloadLen == 2
\* carriers a cover may have beyond what the payload needs
MaxSpare == 1
\* longest payload of an image that is damaged before it is decoded
MaxTamperLen == 1
\* longest slices handed to BytesZipper::merge_into on its own
MaxZipLen == 2
\* longest payload behind a header that is rewritten before decoding
MaxCraftLen == 1
\* most carriers handed to merge_bytes beyond the chunk it reads
MaxExtra == 1

(***************************************************************************)
(* Bit operations on naturals (Rust's &, |, <<, >> on u8 and u64).         *)
(***************************************************************************)
RECURSIVE BitAnd(_, _)
BitAnd(a, b) ==
    IF a = 0 \/ b = 0 THEN 0
    ELSE (a % 2) * (b % 2) + 2 * BitAnd(a \div 2, b \div 2)

RECURSIVE BitOr(_, _)
BitOr(a, b) ==
    IF a = 0 THEN b
    ELSE IF b = 0 THEN a
    ELSE (IF a % 2 = 1 \/ b % 2 = 1 THEN 1 ELSE 0) + 2 * BitOr(a \div 2, b \div 2)

\* u8 << k: the bits shifted out of the byte are lost
Shl8(b, k) == (b * (2 ^ k)) % 256

\* u8 >> k
Shr8(b, k) == b \div (2 ^ k)

Byte == 0 .. 255

(***************************************************************************)
(* lib.rs: enumerations and their wire ordinals.                           *)
(***************************************************************************)
ByteSplitGranularity == {"FourBits", "TwoBits", "OneBit"}

CompressInput == {"None", "Gzip"}

\* impl Into<u8> for ByteSplitGranularity
GranularityIntoU8(g) ==
    CASE g = "FourBits" -> 4
      [] g = "TwoBits" -> 2
      [] g = "OneBit" -> 1

\* impl TryFrom<u8> for ByteSplitGranularity
GranularityTryFrom(v) ==
    CASE v = 4 -> [ok |-> TRUE, value |-> "FourBits"]
      [] v = 2 -> [ok |-> TRUE, value |-> "TwoBits"]
      [] v = 1 -> [ok |-> TRUE, value |-> "OneBit"]
      [] OTHER -> [ok |-> FALSE, err |-> "Unsupported value for ByteSplitGranularity"]

\* impl Into<u8> for CompressInput
CompressIntoU8(c) ==
    CASE c = "None" -> 0
      [] c = "Gzip" -> 1

\* impl TryFrom<u8> for CompressInput
CompressTryFrom(v) ==
    CASE v = 0 -> [ok |-> TRUE, value |-> "None"]
      [] v = 1 -> [ok |-> TRUE, value |-> "Gzip"]
      [] OTHER -> [ok |-> FALSE, err |-> "Unsupported value for CompressInput"]

(***************************************************************************)
(* lib.rs: mod byte_encodings.                                             *)
(***************************************************************************)
split_byte_low_first(granularity, byte) ==
    CASE granularity = "FourBits" ->
            <<BitAnd(byte, 15), Shr8(byte, 4)>>
      [] granularity = "TwoBits" ->
            <<BitAnd(byte, 3), BitAnd(Shr8(byte, 2), 3),
              BitAnd(Shr8(byte, 4), 3), BitAnd(Shr8(byte, 6), 3)>>
      [] granularity = "OneBit" ->
            <<BitAnd(byte, 1), BitAnd(Shr8(byte, 1), 1),
              BitAnd(Shr8(byte, 2), 1), BitAnd(Shr8(byte, 3), 1),
              BitAnd(Shr8(byte, 4), 1), BitAnd(Shr8(byte, 5), 1),
              BitAnd(Shr8(byte, 6), 1), BitAnd(Shr8(byte, 7), 1)>>

split_byte(granularity, byte) ==
    CASE granularity = "FourBits" ->
            <<Shr8(byte, 4), BitAnd(byte, 15)>>
      [] granularity = "TwoBits" ->
            <<BitAnd(Shr8(byte, 6), 3), BitAnd(Shr8(byte, 4), 3),
              BitAnd(Shr8(byte, 2), 3), BitAnd(byte, 3)>>
      [] granularity = "OneBit" ->
            <<BitAnd(Shr8(byte, 7), 1), BitAnd(Shr8(byte, 6), 1),
              BitAnd(Shr8(byte, 5), 1), BitAnd(Shr8(byte, 4), 1),
              BitAnd(Shr8(byte, 3), 1), BitAnd(Shr8(byte, 2), 1),
              BitAnd(Shr8(byte, 1), 1), BitAnd(byte, 1)>>

zip_bytes_keeps_low(granularity, left, right) ==
    CASE granularity = "FourBits" -> BitOr(BitAnd(left, 240), BitAnd(right, 15))
      [] granularity = "TwoBits" -> BitOr(BitAnd(left, 254), BitAnd(right, 3))
      [] granularity = "OneBit" -> BitOr(BitAnd(left, 254), BitAnd(right, 1))

zip_bytes(granularity, left, right) ==
    CASE granularity = "FourBits" -> BitOr(BitAnd(left, 240), BitAnd(right, 15))
      [] granularity = "TwoBits" -> BitOr(BitAnd(left, 252), BitAnd(right, 3))
      [] granularity = "OneBit" -> BitOr(BitAnd(left, 254), BitAnd(right, 1))

\* the slice length merge_bytes indexes: bytes[0 .. chunk-1]
ChunkSize(granularity) ==
    CASE granularity = "FourBits" -> 2
      [] granularity = "TwoBits" -> 4
      [] granularity = "OneBit" -> 8

merge_bytes_low_first(granularity, bytes) ==
    CASE granularity = "FourBits" ->
            BitOr(BitAnd(Shl8(bytes[2], 4), 240), BitAnd(bytes[1], 15))
      [] granularity = "TwoBits" ->
            BitOr(BitOr(BitOr(BitAnd(Shl8(bytes[4], 6), 192),
                              BitAnd(Shl8(bytes[3], 4), 48)),
                        BitAnd(Shl8(bytes[2], 2), 12)),
                  BitAnd(bytes[1], 3))
      [] granularity = "OneBit" ->
            BitOr(BitOr(BitOr(BitOr(BitOr(BitOr(BitOr(
                BitAnd(Shl8(bytes[8], 7), 128),
                BitAnd(Shl8(bytes[7], 6), 64)),
                BitAnd(Shl8(bytes[6], 5), 32)),
                BitAnd(Shl8(bytes[5], 4), 16)),
                BitAnd(Shl8(bytes[4], 3), 8)),
                BitAnd(Shl8(bytes[3], 2), 4)),
                BitAnd(Shl8(bytes[2], 1), 2)),
                BitAnd(bytes[1], 1))

merge_bytes_unmasked(granularity, bytes) ==
    CASE granularity = "FourBits" ->
            BitOr(Shl8(bytes[1], 4), BitAnd(bytes[2], 15))
      [] granularity = "TwoBits" ->
            BitOr(BitOr(BitOr(Shl8(bytes[1], 6), Shl8(bytes[2], 4)),
                        Shl8(bytes[3], 2)), BitAnd(bytes[4], 3))
      [] granularity = "OneBit" ->
            BitOr(BitOr(BitOr(BitOr(BitOr(BitOr(BitOr(
                Shl8(bytes[1], 7), Shl8(bytes[2], 6)), Shl8(bytes[3], 5)),
                Shl8(bytes[4], 4)), Shl8(bytes[5], 3)), Shl8(bytes[6], 2)),
                Shl8(bytes[7], 1)), BitAnd(bytes[8], 1))

\* bytes is 1-indexed here: bytes[i + 1] is the source's bytes[i].  An index
\* beyond the slice panics in the source; callers check Len(bytes) first.
merge_bytes(granularity, bytes) ==
    CASE granularity = "FourBits" ->
            BitOr(BitAnd(Shl8(bytes[1], 4), 240), BitAnd(bytes[2], 15))
      [] granularity = "TwoBits" ->
            BitOr(BitOr(BitOr(BitAnd(Shl8(bytes[1], 6), 192),
                              BitAnd(Shl8(bytes[2], 4), 48)),
                        BitAnd(Shl8(bytes[3], 2), 12)),
                  BitAnd(bytes[4], 3))
      [] granularity = "OneBit" ->
            BitOr(BitOr(BitOr(BitOr(BitOr(BitOr(BitOr(
                BitAnd(Shl8(bytes[1], 7), 128),
                BitAnd(Shl8(bytes[2], 6), 64)),
                BitAnd(Shl8(bytes[3], 5), 32)),
                BitAnd(Shl8(bytes[4], 4), 16)),
                BitAnd(Shl8(bytes[5], 3), 8)),
                BitAnd(Shl8(bytes[6], 2), 4)),
                BitAnd(Shl8(bytes[7], 1), 2)),
                BitAnd(bytes[8], 1))

Min(a, b) == IF a <= b THEN a ELSE b

BytesZipper_merge_into_all(dest, src, granularity) ==
    [i \in 1 .. Len(dest) |->
        zip_bytes(granularity, dest[i], IF i <= Len(src) THEN src[i] ELSE 0)]

\* dest.iter_mut().zip(src): the pairs stop at the shorter of the two
BytesZipper_merge_into(dest, src, granularity) ==
    [i \in 1 .. Len(dest) |->
        IF i <= Min(Len(dest), Len(src))
        THEN zip_bytes(granularity, dest[i], src[i])
        ELSE dest[i]]

(***************************************************************************)
(* 64-bit unsigned values as four 16-bit limbs, most significant first.    *)
(***************************************************************************)
Limb == 0 .. 65535

U64Zero == <<0, 0, 0, 0>>

\* n as u64, for 0 <= n < 2^31
U64FromNat(n) == <<0, 0, n \div 65536, n % 65536>>

\* (byte as u64) << s, seen through the limb that holds bits o .. o+15
LimbOfShifted(byte, s, o) ==
    IF s >= o
    THEN (IF s - o >= 16 THEN 0 ELSE (byte * (2 ^ (s - o))) % 65536)
    ELSE (IF o - s >= 8 THEN 0 ELSE byte \div (2 ^ (o - s)))

\* (byte as u64) << s: bits shifted beyond bit 63 are lost
Shl64(byte, s) == [k \in 1 .. 4 |-> LimbOfShifted(byte, s, 16 * (4 - k))]

Or64(a, b) == [k \in 1 .. 4 |-> BitOr(a[k], b[k])]

\* u < n for a u64 u and a natural n < 2^31
U64LessThanNat(u, n) ==
    /\ u[1] = 0
    /\ u[2] = 0
    /\ u[3] < 32768
    /\ u[3] * 65536 + u[4] < n

NatLessThanU64_slack(n, u) ==
    \/ u[1] # 0
    \/ u[2] # 0
    \/ u[3] >= 32768
    \/ n + 8 < u[3] * 65536 + u[4]

\* n < u for a natural n < 2^31 and a u64 u
NatLessThanU64(n, u) ==
    \/ u[1] # 0
    \/ u[2] # 0
    \/ u[3] >= 32768
    \/ n < u[3] * 65536 + u[4]

\* u * m for a small factor m: the product modulo 2^64 and whether it fits
U64MulSmall(u, m) ==
    LET p4 == u[4] * m
        p3 == u[3] * m + (p4 \div 65536)
        p2 == u[2] * m + (p3 \div 65536)
        p1 == u[1] * m + (p2 \div 65536)
    IN  [value |-> <<p1 % 65536, p2 % 65536, p3 % 65536, p4 % 65536>>,
         overflow |-> p1 \div 65536 # 0]

(***************************************************************************)
(* lib.rs: NibbleNumber.                                                   *)
(***************************************************************************)
NibbleNumberFrom_low_first(value) ==
    [i \in 1 .. 16 |->
        (value[4 - ((i - 1) \div 4)] \div (16 ^ ((i - 1) % 4))) % 16]

\* impl From<u64> for NibbleNumber: data[i] = (value & (0xF << (60 - 4i))) >> (60 - 4i)
NibbleNumberFrom(value) ==
    [i \in 1 .. 16 |->
        (value[((i - 1) \div 4) + 1] \div (16 ^ (3 - ((i - 1) % 4)))) % 16]

RECURSIVE OrShifted(_, _)
OrShifted(data, i) ==
    IF i > 16 THEN U64Zero
    ELSE Or64(Shl64(data[i], 60 - 4 * (i - 1)), OrShifted(data, i + 1))

NibbleNumberInto_low_first(data) == OrShifted([i \in 1 .. 16 |-> data[17 - i]], 1)

\* impl Into<u64> for NibbleNumber: (data[0] as u64) << 60 | ... | (data[15] as u64)
NibbleNumberInto(data) == OrShifted(data, 1)

(***************************************************************************)
(* lib.rs: DataHeader and its 40-byte form.                                *)
(***************************************************************************)
VERSION == 1

\* 0xBEAD
MAGIC == 48813

HEADER_LENGTH == 40

DataHeader_new(compress_input, granularity) ==
    [magic |-> MAGIC, version |-> VERSION, bytes_count |-> U64Zero,
     data_hash |-> U64Zero, compress_input |-> compress_input,
     granularity |-> granularity]

\* [0; 16] with its last Len(part) places taken from part
Expanded(part) == [i \in 1 .. 16 - Len(part) |-> 0] \o part

DataHeaderTryFrom_version_first(data) ==
    LET magic == NibbleNumberInto(Expanded(SubSeq(data, 1, 4)))[4]
        version == NibbleNumberInto(Expanded(SubSeq(data, 5, 6)))[4] % 256
        bytes_count == NibbleNumberInto(SubSeq(data, 7, 22))
        data_hash == NibbleNumberInto(SubSeq(data, 23, 38))
        compress_input ==
            CompressTryFrom(NibbleNumberInto(Expanded(SubSeq(data, 39, 39)))[4] % 256)
        granularity ==
            GranularityTryFrom(NibbleNumberInto(Expanded(SubSeq(data, 40, 40)))[4] % 256)
    IN  IF version # VERSION
        THEN [ok |-> FALSE, err |-> "unsupported version", value |-> version]
        ELSE IF magic # MAGIC
        THEN [ok |-> FALSE, err |-> "invalid magic", value |-> magic]
        ELSE IF ~compress_input.ok
        THEN [ok |-> FALSE, err |-> compress_input.err, value |-> 0]
        ELSE IF ~granularity.ok
        THEN [ok |-> FALSE, err |-> granularity.err, value |-> 0]
        ELSE [ok |-> TRUE,
              header |-> [magic |-> magic, version |-> version,
                          bytes_count |-> bytes_count, data_hash |-> data_hash,
                          compress_input |-> compress_input.value,
                          granularity |-> granularity.value]]

\* impl TryFrom<[u8; HEADER_LENGTH]> for DataHeader; data[i + 1] is the source's data[i]
DataHeaderTryFrom(data) ==
    LET magic == NibbleNumberInto(Expanded(SubSeq(data, 1, 4)))[4]
        version == NibbleNumberInto(Expanded(SubSeq(data, 5, 6)))[4] % 256
        bytes_count == NibbleNumberInto(SubSeq(data, 7, 22))
        data_hash == NibbleNumberInto(SubSeq(data, 23, 38))
        compress_input ==
            CompressTryFrom(NibbleNumberInto(Expanded(SubSeq(data, 39, 39)))[4] % 256)
        granularity ==
            GranularityTryFrom(NibbleNumberInto(Expanded(SubSeq(data, 40, 40)))[4] % 256)
    IN  IF magic # MAGIC
        THEN [ok |-> FALSE, err |-> "invalid magic", value |-> magic]
        ELSE IF version # VERSION
        THEN [ok |-> FALSE, err |-> "unsupported version", value |-> version]
        ELSE IF ~compress_input.ok
        THEN [ok |-> FALSE, err |-> compress_input.err, value |-> 0]
        ELSE IF ~granularity.ok
        THEN [ok |-> FALSE, err |-> granularity.err, value |-> 0]
        ELSE [ok |-> TRUE,
              header |-> [magic |-> magic, version |-> version,
                          bytes_count |-> bytes_count, data_hash |-> data_hash,
                          compress_input |-> compress_input.value,
                          granularity |-> granularity.value]]

DataHeaderInto_hash_first(h) ==
    SubSeq(NibbleNumberFrom(<<0, 0, 0, h.magic>>), 13, 16)
        \o SubSeq(NibbleNumberFrom(<<0, 0, 0, h.version>>), 15, 16)
        \o NibbleNumberFrom(h.data_hash)
        \o NibbleNumberFrom(h.bytes_count)
        \o SubSeq(NibbleNumberFrom(<<0, 0, 0, CompressIntoU8(h.compress_input)>>), 16, 16)
        \o SubSeq(NibbleNumberFrom(<<0, 0, 0, GranularityIntoU8(h.granularity)>>), 16, 16)

\* impl Into<[u8; HEADER_LENGTH]> for DataHeader
DataHeaderInto(h) ==
    SubSeq(NibbleNumberFrom(<<0, 0, 0, h.magic>>), 13, 16)
        \o SubSeq(NibbleNumberFrom(<<0, 0, 0, h.version>>), 15, 16)
        \o NibbleNumberFrom(h.bytes_count)
        \o NibbleNumberFrom(h.data_hash)
        \o SubSeq(NibbleNumberFrom(<<0, 0, 0, CompressIntoU8(h.compress_input)>>), 16, 16)
        \o SubSeq(NibbleNumberFrom(<<0, 0, 0, GranularityIntoU8(h.granularity)>>), 16, 16)

(***************************************************************************)
(* Collaborators from outside the repository, as the encoder and decoder   *)
(* use them.                                                               *)
(*                                                                         *)
(* DefaultHasher (std): a deterministic, order-sensitive 64-bit hash fed   *)
(* one byte at a time.  The stand-in rotates the limbs and mixes the byte  *)
(* into the oldest one; like the real hash it is not collision-free.       *)
(*                                                                         *)
(* flate2 gzip: the stand-in container is <<0x1F, flags>> \o body \o       *)
(* <<sum of body mod 256>>.  As with gzip, the first byte is checked when  *)
(* it is written, the flags byte is not checked at all, and the trailer is *)
(* checked against the body when the stream is finished.                   *)
(***************************************************************************)
DefaultHasher_new == U64Zero

Hasher_write_u8(h, b) == <<h[2], h[3], h[4], (h[1] * 31 + b + 1) % 65536>>

Hasher_finish(h) == h

RECURSIVE HashAll(_, _)
HashAll(h, bytes) ==
    IF bytes = <<>> THEN h
    ELSE HashAll(Hasher_write_u8(h, Head(bytes)), Tail(bytes))

RECURSIVE SumBytes(_)
SumBytes(bytes) ==
    IF bytes = <<>> THEN 0 ELSE (Head(bytes) + SumBytes(Tail(bytes))) % 256

\* Encoder::compress: GzEncoder::new(reader, ..).read_to_end(..)
compress(bytes) == <<31, 0>> \o bytes \o <<SumBytes(bytes)>>

\* GzDecoder::write(&[byte]) on the bytes written so far: Err on a bad first byte
GzDecoder_write(buf, byte) ==
    IF buf = <<>> /\ byte # 31
    THEN [ok |-> FALSE, buf |-> buf]
    ELSE [ok |-> TRUE, buf |-> Append(buf, byte)]

\* GzDecoder::finish(): the decompressed bytes, or Err on a short or corrupt stream
GzDecoder_finish(buf) ==
    IF Len(buf) < 3 THEN [ok |-> FALSE, data |-> <<>>]
    ELSE LET body == SubSeq(buf, 3, Len(buf) - 1)
         IN  IF buf[Len(buf)] = SumBytes(body)
             THEN [ok |-> TRUE, data |-> body]
             ELSE [ok |-> FALSE, data |-> <<>>]

(***************************************************************************)
(* encoder.rs: Encoder.                                                    *)
(***************************************************************************)
Encoder_new(compress_input, byte_split_level) ==
    [compress_input |-> compress_input, byte_split_level |-> byte_split_level]

RECURSIVE SplitAll(_, _)
SplitAll(granularity, bytes) ==
    IF bytes = <<>> THEN <<>>
    ELSE split_byte(granularity, Head(bytes)) \o SplitAll(granularity, Tail(bytes))

encode_data_counts_subcodes(self, bytes) ==
    LET header0 == DataHeader_new(self.compress_input, self.byte_split_level)
        out == SplitAll(header0.granularity, bytes)
        header == [header0 EXCEPT
                      !.bytes_count = U64FromNat(Len(out)),
                      !.data_hash = Hasher_finish(HashAll(DefaultHasher_new, bytes)),
                      !.compress_input = self.compress_input]
    IN  [header |-> DataHeaderInto(header), data |-> out]

\* Encoder::encode_data.  bytes_count is an i32 counter cast to u64; it counts
\* at most MaxPayloadLen + 3 bytes here, so it never leaves 0 .. 2^31 - 1.
encode_data(self, bytes) ==
    LET header0 == DataHeader_new(self.compress_input, self.byte_split_level)
        out == SplitAll(header0.granularity, bytes)
        header == [header0 EXCEPT
                      !.bytes_count = U64FromNat(Len(bytes)),
                      !.data_hash = Hasher_finish(HashAll(DefaultHasher_new, bytes)),
                      !.compress_input = self.compress_input]
    IN  [header |-> DataHeaderInto(header), data |-> out]

\* EncodeOutput::len
EncodeOutput_len(eo) == Len(eo.header) + Len(eo.data)

check_utilisation_strict(cover, eo) == EncodeOutput_len(eo) < Len(cover)

\* Encoder::check_utilisation: Ok(()) exactly when the encoded size fits
check_utilisation(cover, eo) == EncodeOutput_len(eo) <= Len(cover)

Encoder_merge_into_payload_density(self, dest, src) ==
    LET src_size == Len(src.data)
    IN  BytesZipper_merge_into(SubSeq(dest, 1, HEADER_LENGTH), src.header,
                               self.byte_split_level)
        \o BytesZipper_merge_into(
               SubSeq(dest, HEADER_LENGTH + 1, HEADER_LENGTH + src_size),
               src.data, self.byte_split_level)
        \o SubSeq(dest, HEADER_LENGTH + src_size + 1, Len(dest))

\* Encoder::merge_into: dest[0..40] and dest[40..40 + src_size] are rewritten
\* in place (check_utilisation has made both slices lie inside dest)
Encoder_merge_into(self, dest, src) ==
    LET src_size == Len(src.data)
    IN  BytesZipper_merge_into(SubSeq(dest, 1, HEADER_LENGTH), src.header, "FourBits")
        \o BytesZipper_merge_into(
               SubSeq(dest, HEADER_LENGTH + 1, HEADER_LENGTH + src_size),
               src.data, self.byte_split_level)
        \o SubSeq(dest, HEADER_LENGTH + src_size + 1, Len(dest))

\* Encoder::encode from the cover's carrier bytes to the carrier bytes of the
\* image written to output (the PNG container is the image crate's)
Encoder_encode(self, cover, data) ==
    LET eo == IF self.compress_input = "Gzip"
              THEN encode_data(self, compress(data))
              ELSE encode_data(self, data)
    IN  IF check_utilisation(cover, eo)
        THEN [status |-> "ok", encode_output |-> eo,
              cover_image_bytes |-> Encoder_merge_into(self, cover, eo),
              written |-> TRUE]
        ELSE [status |-> "cover image is too small for input",
              encode_output |-> eo,
              cover_image_bytes |-> cover,
              written |-> FALSE]

(***************************************************************************)
(* decoder.rs: Decoder.                                                    *)
(***************************************************************************)
extract_header_unmasked(input) == DataHeaderTryFrom(input)

\* Decoder::extract_header: every byte is masked with 0x0F before parsing
extract_header(input) ==
    DataHeaderTryFrom([i \in 1 .. HEADER_LENGTH |-> BitAnd(input[i], 15)])

\* the k-th chunk (from 0) of data.chunks(chunk_size): the last may be short
Chunk(data, chunk_size, k) ==
    SubSeq(data, k * chunk_size + 1, Min(Len(data), (k + 1) * chunk_size))

ChunkCount(data, chunk_size) == (Len(data) + chunk_size - 1) \div chunk_size

\* handle_byte_fn of uncover_from: hash the byte, then push it to data or
\* write it to the gzip decoder
handle_byte(acc, compress_input, byte) ==
    LET hashed == [acc EXCEPT !.hasher = Hasher_write_u8(acc.hasher, byte),
                              !.merged = acc.merged + 1]
    IN  IF compress_input = "Gzip"
        THEN LET w == GzDecoder_write(acc.sink, byte)
             IN  IF w.ok THEN [hashed EXCEPT !.sink = w.buf]
                 ELSE [hashed EXCEPT !.status = "io_error"]
        ELSE [hashed EXCEPT !.sink = Append(acc.sink, byte)]

\* Decoder::decode_data from chunk k on: chunks(chunk_size).take(bytes_count)
\* .map(merge_bytes).map(handle_byte_fn).collect(), which stops at the first Err;
\* merge_bytes indexes a whole chunk, so a short chunk panics
RECURSIVE decode_data(_, _, _, _)
decode_data(data, header, k, acc) ==
    LET chunk_size == ChunkSize(header.granularity)
        chunk == Chunk(data, chunk_size, k)
    IN  IF k >= ChunkCount(data, chunk_size) \/ ~NatLessThanU64(k, header.bytes_count)
        THEN acc
        ELSE IF Len(chunk) < chunk_size
        THEN [acc EXCEPT !.status = "panic_index"]
        ELSE LET next == handle_byte(acc, header.compress_input,
                                     merge_bytes(header.granularity, chunk))
             IN  IF next.status # "run" THEN next
                 ELSE decode_data(data, header, k + 1, next)

Failure(status, merged) == [status |-> status, data |-> <<>>, merged |-> merged]

uncover_from_hash_unchecked(input, overflow_checks) ==
    IF Len(input) < HEADER_LENGTH
    THEN Failure("image header is not present", 0)
    ELSE
    LET h == extract_header(SubSeq(input, 1, HEADER_LENGTH))
    IN  IF ~h.ok THEN Failure(h.err, 0)
        ELSE
        LET header == h.header
            minimum_size == U64MulSmall(header.bytes_count, ChunkSize(header.granularity))
            remaining == SubSeq(input, HEADER_LENGTH + 1, Len(input))
        IN  IF minimum_size.overflow /\ overflow_checks
            THEN Failure("panic_overflow", 0)
            ELSE IF NatLessThanU64(Len(remaining), minimum_size.value)
            THEN Failure("image data is too small", 0)
            ELSE
            LET walked == decode_data(remaining, header, 0,
                              [status |-> "run", hasher |-> DefaultHasher_new,
                               sink |-> <<>>, merged |-> 0])
                finished == IF header.compress_input = "Gzip"
                            THEN GzDecoder_finish(walked.sink)
                            ELSE [ok |-> TRUE, data |-> walked.sink]
            IN  IF walked.status # "run" THEN Failure(walked.status, walked.merged)
                ELSE IF ~finished.ok THEN Failure("io_error", walked.merged)
                ELSE [status |-> "ok", data |-> finished.data, merged |-> walked.merged]

\* Decoder::uncover_from.  header.bytes_count as usize * chunk size overflows
\* for counts of 2^61 and more: the build panics with overflow checks on and
\* wraps modulo 2^64 with them off (usize is 64 bits wide).
uncover_from(input, overflow_checks) ==
    IF Len(input) < HEADER_LENGTH
    THEN Failure("image header is not present", 0)
    ELSE
    LET h == extract_header(SubSeq(input, 1, HEADER_LENGTH))
    IN  IF ~h.ok THEN Failure(h.err, 0)
        ELSE
        LET header == h.header
            minimum_size == U64MulSmall(header.bytes_count, ChunkSize(header.granularity))
            remaining == SubSeq(input, HEADER_LENGTH + 1, Len(input))
        IN  IF minimum_size.overflow /\ overflow_checks
            THEN Failure("panic_overflow", 0)
            ELSE IF NatLessThanU64(Len(remaining), minimum_size.value)
            THEN Failure("image data is too small", 0)
            ELSE
            LET walked == decode_data(remaining, header, 0,
                              [status |-> "run", hasher |-> DefaultHasher_new,
                               sink |-> <<>>, merged |-> 0])
                finished == IF header.compress_input = "Gzip"
                            THEN GzDecoder_finish(walked.sink)
                            ELSE [ok |-> TRUE, data |-> walked.sink]
            IN  IF walked.status # "run" THEN Failure(walked.status, walked.merged)
                ELSE IF ~finished.ok THEN Failure("io_error", walked.merged)
                ELSE IF Hasher_finish(walked.hasher) # header.data_hash
                THEN Failure("data hash does not match hash printed in header",
                             walked.merged)
                ELSE [status |-> "ok", data |-> finished.data, merged |-> walked.merged]

(***************************************************************************)
(* The codec: a cover and a payload are encoded and the carrier array of   *)
(* the written image is decoded.                                           *)
(***************************************************************************)
\* byte strings of length 0 .. n over the set S
SeqsUpTo(S, n) == UNION {[1 .. k -> S] : k \in 0 .. n}

\* 0x00, 0x48 ('H') and 0xA7
PayloadBytes == {0, 72, 167}

Payloads == SeqsUpTo(PayloadBytes, MaxPayloadLen)

CoverPatterns == {"dark", "noise"}

\* the carrier at index i (from 0) of a cover of the given pattern
CoverByte(pattern, i) == IF pattern = "dark" THEN 0 ELSE (i * 37 + 219) % 256

Cover(pattern, n) == [i \in 1 .. n |-> CoverByte(pattern, i - 1)]

\* the carriers an encode of data needs: header, then 8/depth per stored byte
Needed(self, data) ==
    HEADER_LENGTH
        + ChunkSize(self.byte_split_level)
            * Len(IF self.compress_input = "Gzip" THEN compress(data) ELSE data)

CoverLens(self, data) ==
    {0, HEADER_LENGTH - 1} \cup (Needed(self, data) - 1 .. Needed(self, data) + MaxSpare)

Encoders == {Encoder_new(c, g) : c \in CompressInput, g \in ByteSplitGranularity}

\* whether the build traps integer overflow (debug) or wraps (release)
Builds == [overflow_checks : BOOLEAN]

NoCall == [op |-> "none"]

NoEncode == [status |-> "none"]

NoDecode == [status |-> "none"]

NoTamper == [kind |-> "none"]

\* nothing encoded, damaged or decoded yet
Fresh ==
    /\ encode_output = <<>>
    /\ encode_result = NoEncode
    /\ image_bytes = <<>>
    /\ tamper = NoTamper
    /\ decode_result = NoDecode
    /\ output = <<>>
    /\ call = NoCall
    /\ ret = <<>>

Init ==
    /\ pc = "start"
    /\ build \in Builds
    /\ encoder \in Encoders
    /\ input_data \in Payloads
    /\ \E n \in CoverLens(encoder, input_data), pattern \in CoverPatterns :
           cover_image = Cover(pattern, n)
    /\ Fresh

\* Encoder::encode
Encode ==
    /\ pc = "start"
    /\ LET r == Encoder_encode(encoder, cover_image, input_data)
       IN  /\ encode_result' = [status |-> r.status, written |-> r.written,
                                cover_image_bytes |-> r.cover_image_bytes]
           /\ encode_output' = r.encode_output
           /\ image_bytes' = IF r.written THEN r.cover_image_bytes ELSE <<>>
    /\ pc' = "encoded"
    /\ UNCHANGED <<build, encoder, cover_image, input_data, tamper, decode_result,
                   output, call, ret>>

Decode_streaming ==
    /\ pc \in {"encoded", "tampered", "crafted"}
    /\ pc = "encoded" => encode_result.status = "ok"
    /\ LET r == uncover_from(image_bytes, build.overflow_checks)
           g == extract_header(SubSeq(image_bytes, 1, HEADER_LENGTH)).header.granularity
           remaining == SubSeq(image_bytes, HEADER_LENGTH + 1, Len(image_bytes))
       IN  /\ decode_result' = r
           /\ output' = IF r.status = "ok" THEN output \o r.data
                         ELSE IF r.merged = 0 THEN output
                         ELSE output \o [k \in 1 .. r.merged |->
                                            merge_bytes(g, Chunk(remaining, ChunkSize(g), k - 1))]
    /\ pc' = "decoded"
    /\ UNCHANGED <<build, encoder, cover_image, input_data, encode_output,
                   encode_result, image_bytes, tamper, call, ret>>

\* Decoder::decode: the payload is written to output only when uncover_from is Ok
Decode ==
    /\ pc \in {"encoded", "tampered", "crafted"}
    /\ pc = "encoded" => encode_result.status = "ok"
    /\ LET r == uncover_from(image_bytes, build.overflow_checks)
       IN  /\ decode_result' = r
           /\ output' = IF r.status = "ok" THEN output \o r.data ELSE output
    /\ pc' = "decoded"
    /\ UNCHANGED <<build, encoder, cover_image, input_data, encode_output,
                   encode_result, image_bytes, tamper, call, ret>>

Next == Encode \/ Decode

Spec == Init /\ [][Next]_vars

(***************************************************************************)
(* The codec with damage in transit: one bit of one carrier behind the     *)
(* header is flipped, or the carrier array is cut short, before decoding.  *)
(***************************************************************************)
\* "Hey!", the payload of test_encode_decode, repeated as far as needed
Hey(n) == [i \in 1 .. n |-> <<72, 101, 121, 33>>[((i - 1) % 4) + 1]]

InitTamper ==
    /\ pc = "start"
    /\ build \in Builds
    /\ encoder \in Encoders
    /\ input_data \in {Hey(n) : n \in 0 .. MaxTamperLen}
    /\ \E spare \in {0, MaxSpare} :
           cover_image = Cover("noise", Needed(encoder, input_data) + spare)
    /\ Fresh

\* the byte b with bit number bit (0 the lowest) inverted
FlipBitOf(b, bit) ==
    IF (b \div (2 ^ bit)) % 2 = 1 THEN b - 2 ^ bit ELSE b + 2 ^ bit

FlipBit ==
    /\ pc = "encoded"
    /\ encode_result.status = "ok"
    /\ \E i \in HEADER_LENGTH + 1 .. Len(image_bytes), bit \in 0 .. 7 :
           /\ image_bytes' = [image_bytes EXCEPT ![i] = FlipBitOf(image_bytes[i], bit)]
           /\ tamper' = [kind |-> "flip", index |-> i - 1, bit |-> bit]
    /\ pc' = "tampered"
    /\ UNCHANGED <<build, encoder, cover_image, input_data, encode_output,
                   encode_result, decode_result, output, call, ret>>

Truncate ==
    /\ pc = "encoded"
    /\ encode_result.status = "ok"
    /\ \E n \in 0 .. Len(image_bytes) - 1 :
           /\ image_bytes' = SubSeq(image_bytes, 1, n)
           /\ tamper' = [kind |-> "truncate", len |-> n]
    /\ pc' = "tampered"
    /\ UNCHANGED <<build, encoder, cover_image, input_data, encode_output,
                   encode_result, decode_result, output, call, ret>>

NextTamper == Encode \/ FlipBit \/ Truncate \/ Decode

SpecTamper == InitTamper /\ [][NextTamper]_vars

(***************************************************************************)
(* Properties of the codec.                                                *)
(***************************************************************************)
HashMismatch == "data hash does not match hash printed in header"

TooSmall == "image data is too small"

NoHeader == "image header is not present"

CapacityError == "cover image is too small for input"

\* the carriers behind the header that hold payload sub-codes: indices
\* HEADER_LENGTH .. PayloadEnd - 1 (from 0)
PayloadEnd == HEADER_LENGTH + Len(encode_output.data)

CapacityBoundary ==
    pc # "start" =>
        /\ PayloadEnd = Needed(encoder, input_data)
        /\ PayloadEnd <= Len(cover_image)
              => /\ encode_result.status = "ok"
                 /\ encode_result.written
                 /\ Len(image_bytes) = Len(cover_image)
        /\ PayloadEnd > Len(cover_image)
              => /\ encode_result.status = CapacityError
                 /\ encode_result.cover_image_bytes = cover_image
                 /\ ~encode_result.written
                 /\ image_bytes = <<>>

CapacityBoundaryWitness ==
    /\ pc = "encoded"
    /\ input_data # <<>>
    /\ PayloadEnd = Len(cover_image)
    /\ encode_result.status = "ok"

\* the flip hit a carrier of the payload region
FlippedInPayload ==
    /\ pc = "decoded"
    /\ tamper.kind = "flip"
    /\ tamper.index >= HEADER_LENGTH
    /\ tamper.index < PayloadEnd

\* C3 as claimed: a flip of any of the 8 bits of a carrier of the payload
\* region, in either compression mode, makes decode fail with the checksum
\* mismatch.
TamperAnyBitDetected ==
    FlippedInPayload => decode_result.status = HashMismatch

\* C3 as amended.  Only the low depth bits of a carrier carry payload: a
\* flip of a higher bit is not seen by decode, which still returns the
\* payload.  A flip of one of the low depth bits changes one stored byte;
\* decode then fails, with the checksum mismatch when nothing is compressed
\* (unless the checksums of the two byte strings collide), and with the
\* decompression error or the checksum mismatch under Gzip, where
\* decompression is finished before the checksums are compared.  In no case
\* does the sink receive anything but the payload.
TamperLowBitDetected ==
    FlippedInPayload =>
        /\ tamper.bit >= GranularityIntoU8(encoder.byte_split_level)
              => /\ decode_result.status = "ok"
                 /\ output = input_data
        /\ (tamper.bit < GranularityIntoU8(encoder.byte_split_level)
               /\ encoder.compress_input = "None")
              => \/ decode_result.status = HashMismatch
                 \/ /\ decode_result.status = "ok"
                    /\ HashAll(DefaultHasher_new, decode_result.data)
                          = HashAll(DefaultHasher_new, input_data)
        /\ (tamper.bit < GranularityIntoU8(encoder.byte_split_level)
               /\ encoder.compress_input = "Gzip")
              => decode_result.status \in {"io_error", HashMismatch}
        /\ tamper.bit < GranularityIntoU8(encoder.byte_split_level)
              => output = <<>>

TamperLowBitWitness ==
    /\ FlippedInPayload
    /\ tamper.bit = 1
    /\ encoder = Encoder_new("None", "TwoBits")
    /\ decode_result.status = HashMismatch
    /\ decode_result.merged = Len(input_data)

\* the carrier array was cut below the length its header asks for
TruncatedBelowNeed ==
    /\ pc = "decoded"
    /\ tamper.kind = "truncate"
    /\ tamper.len < PayloadEnd

\* C4 as claimed: every truncation below 40 + byte_count * (8/depth),
\* lengths below 40 included, makes decode fail with the size-consistency
\* error.
TruncationIsSizeError ==
    TruncatedBelowNeed => decode_result.status = TooSmall

\* C4 as amended.  A truncation to fewer than 40 carriers makes decode fail
\* with the header-not-present error; a truncation to 40 carriers or more,
\* but fewer than 40 + byte_count * (8/depth), makes it fail with the
\* size-consistency error, also when the cut falls inside a chunk.  In both
\* cases decode does not panic, merges no carrier and writes nothing.
TruncationDetected ==
    TruncatedBelowNeed =>
        /\ tamper.len < HEADER_LENGTH => decode_result.status = NoHeader
        /\ tamper.len >= HEADER_LENGTH => decode_result.status = TooSmall
        /\ decode_result.merged = 0
        /\ output = <<>>

TruncationWitness ==
    /\ TruncatedBelowNeed
    /\ tamper.len > HEADER_LENGTH
    /\ (tamper.len - HEADER_LENGTH) % ChunkSize(encoder.byte_split_level) # 0
    /\ decode_result.status = TooSmall

(***************************************************************************)
(* The byte encodings on their own: split_byte and merge_bytes.            *)
(***************************************************************************)
\* no codec run is going on while single functions are called
Idle ==
    /\ pc = "call"
    /\ build = [overflow_checks |-> TRUE]
    /\ encoder = Encoder_new("None", "FourBits")
    /\ cover_image = <<>>
    /\ input_data = <<>>
    /\ Fresh

InitCall == Idle

\* split_byte(granularity, byte)
SplitByte ==
    /\ call = NoCall
    /\ \E g \in ByteSplitGranularity, b \in Byte :
           /\ call' = [op |-> "split_byte", granularity |-> g, byte |-> b]
           /\ ret' = split_byte(g, b)
    /\ UNCHANGED <<pc, codec_vars>>

\* merge_bytes(granularity, &result) on the result of the split before it
MergeSplit ==
    /\ call.op = "split_byte"
    /\ call' = [op |-> "merge_bytes", granularity |-> call.granularity,
                bytes |-> ret, byte |-> call.byte]
    /\ ret' = merge_bytes(call.granularity, ret)
    /\ UNCHANGED <<pc, codec_vars>>

NextSplit == SplitByte \/ MergeSplit

SpecSplit == InitCall /\ [][NextSplit]_vars

(***************************************************************************)
(* The byte encodings on their own: zip_bytes and BytesZipper::merge_into. *)
(***************************************************************************)
\* zip_bytes(granularity, left, right)
ZipBytes ==
    /\ call = NoCall
    /\ \E g \in ByteSplitGranularity, l \in Byte, r \in Byte :
           /\ call' = [op |-> "zip_bytes", granularity |-> g, left |-> l, right |-> r]
           /\ ret' = zip_bytes(g, l, r)
    /\ UNCHANGED <<pc, codec_vars>>

\* zip_bytes of the same sub-code into the byte the zip before it returned
ZipAgain ==
    /\ call.op = "zip_bytes"
    /\ call' = [op |-> "zip_again", granularity |-> call.granularity,
                left |-> ret, right |-> call.right]
    /\ ret' = zip_bytes(call.granularity, ret, call.right)
    /\ UNCHANGED <<pc, codec_vars>>

\* 0x00, 0x5A, 0xFF
ZipSamples == {0, 90, 255}

\* BytesZipper::merge_into(dest, src, granularity): ret is dest afterwards
MergeInto ==
    /\ call = NoCall
    /\ \E g \in ByteSplitGranularity,
          dest \in SeqsUpTo(ZipSamples, MaxZipLen),
          src \in SeqsUpTo(ZipSamples, MaxZipLen) :
           /\ call' = [op |-> "merge_into", granularity |-> g, dest |-> dest, src |-> src]
           /\ ret' = BytesZipper_merge_into(dest, src, g)
    /\ UNCHANGED <<pc, codec_vars>>

NextZip == ZipBytes \/ ZipAgain \/ MergeInto

SpecZip == InitCall /\ [][NextZip]_vars

\* C6: split/merge inverse.  For every granularity g and every byte b in
\* 0 .. 255, merge_bytes(g, split_byte(g, b)) = b.
SplitMergeInverse ==
    call.op = "merge_bytes" => ret = call.byte

SplitMergeWitness ==
    /\ call.op = "merge_bytes"
    /\ call.granularity = "OneBit"
    /\ call.byte = 167
    /\ call.bytes = <<1, 0, 1, 0, 0, 1, 1, 1>>
    /\ ret = 167

\* the high 8 - d bits of z are those of l and the low d bits those of r,
\* d the depth of granularity g
Zipped(g, z, l, r) ==
    /\ z \div (2 ^ GranularityIntoU8(g)) = l \div (2 ^ GranularityIntoU8(g))
    /\ z % (2 ^ GranularityIntoU8(g)) = r % (2 ^ GranularityIntoU8(g))

\* C7: zip.  zip_bytes(g, L, R) keeps the high 8 - d bits of L and takes the
\* low d bits of R, for all bytes L and R; BytesZipper::merge_into does this
\* at each position below min(len(dest), len(src)) and leaves the other
\* positions of dest alone; zipping the same sub-code a second time changes
\* nothing.
ZipKeepsHighTakesLow ==
    /\ call.op = "zip_bytes" => Zipped(call.granularity, ret, call.left, call.right)
    /\ call.op = "zip_again" => ret = call.left
    /\ call.op = "merge_into" =>
          /\ Len(ret) = Len(call.dest)
          /\ \A i \in 1 .. Len(call.dest) :
                IF i <= Len(call.src)
                THEN Zipped(call.granularity, ret[i], call.dest[i], call.src[i])
                ELSE ret[i] = call.dest[i]

ZipWitness ==
    /\ call.op = "zip_again"
    /\ call.granularity = "TwoBits"
    /\ call.left = 245
    /\ call.right = 1
    /\ ret = 245

(***************************************************************************)
(* The nibble numbers and the header format on their own.                  *)
(***************************************************************************)
\* 64-bit values with every nibble value at some place: limbs 0x0000, 0xABCD,
\* 0xFFFF outside and 0x0000, 0x1234 inside
U64Samples ==
    {<<a, b, c, d>> : a \in {0, 43981, 65535}, b \in {0, 4660},
                      c \in {0, 4660}, d \in {0, 43981, 65535}}

HashSamples == {<<a, a, b, b>> : a \in {0, 43981, 65535}, b \in {4660, 65535}}

\* 16 bytes, of any value: a filler byte everywhere but at one place
ByteArrays ==
    {[i \in 1 .. 16 |-> IF i = at THEN v ELSE fill] :
        at \in 1 .. 16, v \in {0, 7, 16, 165, 240, 255}, fill \in {0, 9, 255}}

\* headers as the encoder builds them: MAGIC, VERSION and any field values
Headers ==
    [magic : {MAGIC}, version : {VERSION}, bytes_count : U64Samples,
     data_hash : HashSamples, compress_input : CompressInput,
     granularity : ByteSplitGranularity]

\* NibbleNumber::from(value)
NibbleFrom ==
    /\ call = NoCall
    /\ \E v \in U64Samples :
           /\ call' = [op |-> "nibble_from", value |-> v]
           /\ ret' = NibbleNumberFrom(v)
    /\ UNCHANGED <<pc, codec_vars>>

\* NibbleNumber::new(data).into() on the nibbles of the call before it
NibbleBack ==
    /\ call.op = "nibble_from"
    /\ call' = [op |-> "nibble_back", data |-> ret, value |-> call.value]
    /\ ret' = NibbleNumberInto(ret)
    /\ UNCHANGED <<pc, codec_vars>>

\* NibbleNumber::new(data).into() on any 16 bytes
NibbleInto ==
    /\ call = NoCall
    /\ \E a \in ByteArrays :
           /\ call' = [op |-> "nibble_into", data |-> a]
           /\ ret' = NibbleNumberInto(a)
    /\ UNCHANGED <<pc, codec_vars>>

\* let raw: [u8; HEADER_LENGTH] = header.into()
Serialize ==
    /\ call = NoCall
    /\ \E h \in Headers :
           /\ call' = [op |-> "serialize", header |-> h]
           /\ ret' = DataHeaderInto(h)
    /\ UNCHANGED <<pc, codec_vars>>

\* DataHeader::try_from(raw) on the bytes of the call before it
Deserialize ==
    /\ call.op = "serialize"
    /\ call' = [op |-> "deserialize", data |-> ret, header |-> call.header]
    /\ ret' = DataHeaderTryFrom(ret)
    /\ UNCHANGED <<pc, codec_vars>>

\* the low nibbles of header regions: well-formed ones, and ones with a wrong
\* magic, version, compression ordinal or granularity value
HeaderNibbles ==
    LET good == {DataHeaderInto([magic |-> MAGIC, version |-> VERSION,
                                 bytes_count |-> <<0, 0, 4660, n>>,
                                 data_hash |-> <<43981, 0, 65535, n>>,
                                 compress_input |-> c, granularity |-> g]) :
                    n \in {0, 3}, c \in CompressInput, g \in ByteSplitGranularity}
    IN  good
        \cup {[r EXCEPT ![4] = 14] : r \in good}
        \cup {[r EXCEPT ![6] = 2] : r \in good}
        \cup {[r EXCEPT ![39] = 2] : r \in good}
        \cup {[r EXCEPT ![40] = 8] : r \in good}

\* what the high 4 bits of carrier i may hold
Noise(kind, i) ==
    CASE kind = "clear" -> 0
      [] kind = "set" -> 240
      [] kind = "mixed" -> 16 * ((i * 7 + 3) % 16)

NoiseKinds == {"clear", "set", "mixed"}

\* Decoder::extract_header on two header regions with the same low nibbles
ExtractHeaderPair ==
    /\ call = NoCall
    /\ \E low \in HeaderNibbles, k1 \in NoiseKinds, k2 \in NoiseKinds :
           LET a == [i \in 1 .. HEADER_LENGTH |-> low[i] + Noise(k1, i)]
               b == [i \in 1 .. HEADER_LENGTH |-> low[i] + Noise(k2, i)]
           IN  /\ call' = [op |-> "extract_header", input |-> a, other |-> b]
               /\ ret' = <<extract_header(a), extract_header(b)>>
    /\ UNCHANGED <<pc, codec_vars>>

NextHeader ==
    NibbleFrom \/ NibbleBack \/ NibbleInto \/ Serialize \/ Deserialize \/ ExtractHeaderPair

SpecHeader == InitCall /\ [][NextHeader]_vars

\* the 16-bit number whose hexadecimal digits are n[from] .. n[from + 3]
Hex4(n, from) == n[from] * 4096 + n[from + 1] * 256 + n[from + 2] * 16 + n[from + 3]

\* the 64-bit number whose hexadecimal digits are n[from] .. n[from + 15]
Hex16(n, from) ==
    <<Hex4(n, from), Hex4(n, from + 4), Hex4(n, from + 8), Hex4(n, from + 12)>>

\* C5: header round trip.  For every header with the expected magic and
\* version, serialize yields 40 bytes below 16: magic at 0-3, version at 4-5,
\* byte count at 6-21, checksum at 22-37, most significant nibble first,
\* compression ordinal (0/1) at 38 and granularity value (4/2/1) at 39; and
\* deserialize of those bytes succeeds with a header equal in every field.
HeaderRoundTrip ==
    /\ call.op = "serialize" =>
          /\ Len(ret) = HEADER_LENGTH
          /\ \A i \in 1 .. HEADER_LENGTH : ret[i] \in 0 .. 15
          /\ Hex4(ret, 1) = MAGIC
          /\ ret[5] * 16 + ret[6] = VERSION
          /\ Hex16(ret, 7) = call.header.bytes_count
          /\ Hex16(ret, 23) = call.header.data_hash
          /\ ret[39] = (IF call.header.compress_input = "Gzip" THEN 1 ELSE 0)
          /\ ret[40] = (CASE call.header.granularity = "FourBits" -> 4
                          [] call.header.granularity = "TwoBits" -> 2
                          [] call.header.granularity = "OneBit" -> 1)
    /\ call.op = "deserialize" =>
          /\ ret.ok
          /\ ret.header = call.header

HeaderRoundTripWitness ==
    /\ call.op = "deserialize"
    /\ ret.ok
    /\ ret.header.bytes_count = <<65535, 4660, 0, 43981>>
    /\ ret.header.data_hash = <<43981, 43981, 4660, 4660>>
    /\ ret.header.compress_input = "Gzip"
    /\ ret.header.granularity = "OneBit"

\* C9: header parsing is tolerant of high bits.  Two header regions that
\* agree in the low 4 bits of each of their 40 bytes, whatever their high 4
\* bits, get the same outcome from header extraction: the same header or the
\* same error.
HeaderIgnoresHighBits ==
    call.op = "extract_header" => ret[1] = ret[2]

HeaderIgnoresHighBitsWitness ==
    /\ call.op = "extract_header"
    /\ \A i \in 1 .. HEADER_LENGTH : call.input[i] # call.other[i]
    /\ ret[1].ok
    /\ ret[1].header.bytes_count = <<0, 0, 4660, 3>>

\* C10 as claimed: the value from_nibbles reconstructs depends only on the
\* low 4 bits of each of the 16 bytes: it is the number whose hexadecimal
\* digits are those low nibbles.
FromNibblesIgnoresHighBits ==
    call.op = "nibble_into" =>
        ret = Hex16([i \in 1 .. 16 |-> call.data[i] % 16], 1)

\* C10 as amended.  from_nibbles does not mask: it ORs (byte << shift)
\* together, so the high 4 bits of byte i + 1 land on the nibble of byte i
\* (those of byte 0 are shifted out of the 64 bits).  Its value depends only
\* on the low 4 bits for arrays whose bytes are all below 16, as to_nibbles
\* produces and as Decoder::extract_header passes on after masking; for these
\* it is the number with those hexadecimal digits, and from_nibbles of
\* to_nibbles(v) is v.
FromNibblesOrsShiftedBytes ==
    /\ call.op = "nibble_into" =>
          ret = Hex16([i \in 1 .. 16 |->
                          BitOr(call.data[i] % 16,
                                IF i < 16 THEN call.data[i + 1] \div 16 ELSE 0)], 1)
    /\ (call.op = "nibble_into" /\ \A i \in 1 .. 16 : call.data[i] < 16) =>
          ret = Hex16(call.data, 1)
    /\ call.op = "nibble_back" => ret = call.value

FromNibblesWitness ==
    /\ call.op = "nibble_into"
    /\ call.data[3] = 165
    /\ call.data[2] = 9
    /\ ret[1] = 9 * 4096 + 11 * 256 + 5 * 16 + 9

(***************************************************************************)
(* The decoder on carrier arrays nobody encoded: an encoded image whose    *)
(* header nibbles are rewritten, or which is cut inside its header.        *)
(***************************************************************************)
\* img with the low 4 bits of the carrier at index i (from 0) set to v
WithNibble(img, i, v) == [img EXCEPT ![i + 1] = (img[i + 1] \div 16) * 16 + v]

\* img with the 16 byte-count nibbles (carriers 6-21) spelling the u64 u
WithCount(img, u) ==
    [i \in 1 .. Len(img) |->
        IF i \in 7 .. 22
        THEN (img[i] \div 16) * 16 + NibbleNumberFrom(u)[i - 6]
        ELSE img[i]]

\* byte counts a header may declare: 3, 2^61, 2^62 + 1, 2^63, 2^63 + 1, 2^64 - 1
CraftCounts ==
    {<<0, 0, 0, 3>>, <<8192, 0, 0, 0>>, <<16384, 0, 0, 1>>, <<32768, 0, 0, 0>>,
     <<32768, 0, 0, 1>>, <<65535, 65535, 65535, 65535>>}

Crafts ==
    [magic : {"keep", "bad"}, version : {"keep", "bad"},
     compress_input : {"keep", "bad"}, granularity : {"keep", "bad"},
     bytes_count : {<<>>} \cup CraftCounts, checksum : {"keep", "bad"},
     cut : {"keep", "header"}]

Crafted(img, craft) ==
    LET m == IF craft.magic = "bad" THEN WithNibble(img, 3, 14) ELSE img
        v == IF craft.version = "bad" THEN WithNibble(m, 5, 2) ELSE m
        c == IF craft.compress_input = "bad" THEN WithNibble(v, 38, 2) ELSE v
        g == IF craft.granularity = "bad" THEN WithNibble(c, 39, 3) ELSE c
        n == IF craft.bytes_count = <<>> THEN g ELSE WithCount(g, craft.bytes_count)
        h == IF craft.checksum = "bad"
             THEN WithNibble(n, 37, ((n[38] % 16) + 1) % 16)
             ELSE n
    IN  IF craft.cut = "header" THEN SubSeq(h, 1, HEADER_LENGTH - 1) ELSE h

InitDecode ==
    /\ pc = "crafted"
    /\ build \in Builds
    /\ encoder \in Encoders
    /\ input_data \in {Hey(n) : n \in 0 .. MaxCraftLen}
    /\ \E spare \in {0, 1} :
           cover_image = Cover("noise", Needed(encoder, input_data) + spare)
    /\ LET encoded == Encoder_encode(encoder, cover_image, input_data).cover_image_bytes
       IN  \E craft \in Crafts :
               /\ tamper = [kind |-> "craft", craft |-> craft]
               /\ image_bytes = Crafted(encoded, craft)
    /\ encode_output = <<>>
    /\ encode_result = NoEncode
    /\ decode_result = NoDecode
    /\ output = <<>>
    /\ call = NoCall
    /\ ret = <<>>

NextDecode == Decode

SpecDecode == InitDecode /\ [][NextDecode]_vars

\* the low 4 bits of the first 40 carriers
LowNibbles(img) == [i \in 1 .. HEADER_LENGTH |-> img[i] % 16]

\* the error the checks of C8, taken in their order and with exact
\* arithmetic, give for a carrier array; "none" when all six pass
FirstFailingCheck(img) ==
    IF Len(img) < HEADER_LENGTH THEN NoHeader
    ELSE
    LET n == LowNibbles(img)
    IN  IF Hex4(n, 1) # MAGIC THEN "invalid magic"
        ELSE IF n[5] * 16 + n[6] # VERSION THEN "unsupported version"
        ELSE IF n[39] \notin {0, 1} THEN "Unsupported value for CompressInput"
        ELSE IF n[40] \notin {4, 2, 1} THEN "Unsupported value for ByteSplitGranularity"
        ELSE IF NatLessThanU64((Len(img) - HEADER_LENGTH) \div (8 \div n[40]), Hex16(n, 7))
        THEN TooSmall
        ELSE "none"

\* C8: decode validation order.  For every carrier array the checks run in
\* the order (1) length < 40, (2) magic, (3) version, (4) compression
\* ordinal, (5) granularity value, (6) remaining carriers < byte_count *
\* (8/depth); the first check that fails alone determines the error, and when
\* one fails no carrier behind the header is merged, hashed or decompressed.
DecodeChecksInOrder ==
    (pc = "decoded" /\ FirstFailingCheck(image_bytes) # "none") =>
        /\ decode_result.status = FirstFailingCheck(image_bytes)
        /\ decode_result.merged = 0

\* the byte count of the header, times the chunk size, exceeds 2^64 - 1
CountOverflows ==
    /\ Len(image_bytes) >= HEADER_LENGTH
    /\ LowNibbles(image_bytes)[40] \in {4, 2, 1}
    /\ U64MulSmall(Hex16(LowNibbles(image_bytes), 7),
                   8 \div LowNibbles(image_bytes)[40]).overflow

\* where the product of check (6) fits in 64 bits the checks do run in that
\* order: every violation of DecodeChecksInOrder is a state of CountOverflows
DecodeChecksInOrderUnlessOverflow ==
    (pc = "decoded" /\ FirstFailingCheck(image_bytes) # "none" /\ ~CountOverflows) =>
        /\ decode_result.status = FirstFailingCheck(image_bytes)
        /\ decode_result.merged = 0

(***************************************************************************)
(* The image a successful encode writes, carrier by carrier.               *)
(***************************************************************************)
\* a successful Encoder::encode has just returned
Encoded == pc = "encoded" /\ encode_result.status = "ok"

\* C11: embedding layout and frame.  After a successful encode with payload
\* depth d and n payload sub-codes the written carrier array is as long as
\* the cover; carrier i < 40 is (cover[i] & 0xF0) | header nibble i, whatever
\* the payload granularity; carrier i in [40, 40 + n) keeps the high 8 - d
\* bits of cover[i] and has sub-code i - 40 in its low d bits; every carrier
\* from 40 + n on is cover[i] unchanged.
EmbeddingLayout ==
    Encoded =>
        LET d == GranularityIntoU8(encoder.byte_split_level)
            n == Len(encode_output.data)
        IN  /\ Len(image_bytes) = Len(cover_image)
            /\ Len(encode_output.header) = HEADER_LENGTH
            /\ \A i \in 1 .. Len(image_bytes) :
                   IF i <= HEADER_LENGTH
                   THEN image_bytes[i]
                           = (cover_image[i] \div 16) * 16 + encode_output.header[i]
                   ELSE IF i <= HEADER_LENGTH + n
                   THEN /\ image_bytes[i] \div (2 ^ d) = cover_image[i] \div (2 ^ d)
                        /\ image_bytes[i] % (2 ^ d)
                              = encode_output.data[i - HEADER_LENGTH]
                   ELSE image_bytes[i] = cover_image[i]

EmbeddingLayoutWitness ==
    /\ Encoded
    /\ encoder.byte_split_level = "OneBit"
    /\ input_data # <<>>
    /\ Len(cover_image) > PayloadEnd
    /\ \E i \in 1 .. HEADER_LENGTH : cover_image[i] >= 16 /\ encode_output.header[i] # 0
    /\ \E i \in HEADER_LENGTH + 1 .. PayloadEnd : image_bytes[i] # cover_image[i]

(***************************************************************************)
(* The size the decoder requires behind a well-formed header.              *)
(***************************************************************************)
\* the carrier array that was decoded has 40 carriers or more and its header
\* passes DataHeader::try_from
HeaderWellFormed ==
    /\ pc = "decoded"
    /\ FirstFailingCheck(image_bytes) \in {TooSmall, "none"}

\* the header's byte count and chunk size, and the carriers behind the header
DeclaredCount == Hex16(LowNibbles(image_bytes), 7)

DeclaredChunk == 8 \div LowNibbles(image_bytes)[40]

Remaining == Len(image_bytes) - HEADER_LENGTH

\* C12: required-size arithmetic.  For every well-formed header, whatever
\* its byte count in 0 .. 2^64 - 1 and its granularity, the decoder's minimum
\* required size is the exact product byte_count * (8/depth), not that product
\* modulo the machine word; so whenever fewer carriers than the product follow
\* the header, decode returns the size-consistency error, and merge is never
\* applied to a chunk of fewer than 8/depth carriers.
RequiredSizeExact ==
    HeaderWellFormed =>
        /\ ~U64MulSmall(DeclaredCount, DeclaredChunk).overflow
        /\ NatLessThanU64(Remaining \div DeclaredChunk, DeclaredCount)
              => decode_result.status = TooSmall
        /\ decode_result.status \notin {"panic_overflow", "panic_index"}

\* a build without overflow checks went on to merge a short chunk
ShortChunkMerged ==
    /\ HeaderWellFormed
    /\ ~build.overflow_checks
    /\ decode_result.status = "panic_index"
    /\ decode_result.merged > 0

(***************************************************************************)
(* What reaches the caller's output sink.                                  *)
(***************************************************************************)
\* the errors Decoder::decode returns
DecodeErrors ==
    {NoHeader, "invalid magic", "unsupported version",
     "Unsupported value for CompressInput",
     "Unsupported value for ByteSplitGranularity", TooSmall, "io_error", HashMismatch}

\* the bytes decode_data merged: one per chunk, from the first chunk on
MergedBytes ==
    LET g == GranularityTryFrom(LowNibbles(image_bytes)[40]).value
        remaining == SubSeq(image_bytes, HEADER_LENGTH + 1, Len(image_bytes))
    IN  [k \in 1 .. decode_result.merged |->
            merge_bytes(g, Chunk(remaining, ChunkSize(g), k - 1))]

\* C13: nothing partial on decode failure.  Whenever decode returns an error
\* (header not present, a header error, size consistency, decompression
\* failure, checksum mismatch) no byte has been written to the caller's
\* sink.  The sink is written only when decode succeeds, that is after the
\* header was found and parsed, every merged chunk was whole and the checksum
\* of the merged bytes, compared last, equalled the header's; it then
\* receives the whole payload.
NothingPartialOnFailure ==
    pc = "decoded" =>
        /\ decode_result.status \in DecodeErrors => output = <<>>
        /\ output # <<>> => decode_result.status = "ok"
        /\ decode_result.status = "ok" =>
              /\ output = decode_result.data
              /\ FirstFailingCheck(image_bytes) \in {TooSmall, "none"}
              /\ decode_result.merged * DeclaredChunk <= Remaining
              /\ Hasher_finish(HashAll(DefaultHasher_new, MergedBytes))
                    = Hex16(LowNibbles(image_bytes), 23)
              /\ LowNibbles(image_bytes)[39] = 0 => output = MergedBytes

\* carriers were merged and hashed, the checksum did not match, and the sink
\* is empty
NothingPartialWitness ==
    /\ pc = "decoded"
    /\ decode_result.status = HashMismatch
    /\ decode_result.merged > 0
    /\ output = <<>>

(***************************************************************************)
(* The shape of a split.                                                   *)
(***************************************************************************)
\* C14: split shape.  For every granularity g of depth d and every byte b,
\* split_byte(g, b) has exactly 8/d sub-codes, each in [0, 2^d), and the i-th
\* (i from 0) is (b >> (8 - d * (i + 1))) mod 2^d: the d-bit groups of b from
\* the most significant to the least significant.
SplitShape ==
    call.op = "split_byte" =>
        LET d == GranularityIntoU8(call.granularity)
        IN  /\ Len(ret) = 8 \div d
            /\ \A i \in 0 .. Len(ret) - 1 :
                   /\ ret[i + 1] \in 0 .. (2 ^ d) - 1
                   /\ ret[i + 1] = (call.byte \div (2 ^ (8 - d * (i + 1)))) % (2 ^ d)

SplitShapeWitness ==
    /\ call.op = "split_byte"
    /\ call.granularity = "TwoBits"
    /\ call.byte = 167
    /\ ret = <<2, 2, 1, 3>>

(***************************************************************************)
(* The header of an encode against what was embedded behind it.            *)
(***************************************************************************)
\* the bytes Encoder::encode feeds to encode_data
Stored == IF encoder.compress_input = "Gzip" THEN compress(input_data) ELSE input_data

CarrierPatterns == {"dark", "noise", "bright"}

\* a chunk of n carriers of the given pattern
Carriers(pattern, n) ==
    IF pattern = "bright" THEN [i \in 1 .. n |-> 255] ELSE Cover(pattern, n)

\* the sub-codes of byte b, clean or with every bit above the low d bits set
SubCodes(g, b, junk) ==
    [i \in 1 .. ChunkSize(g) |->
        split_byte(g, b)[i]
            + (IF junk THEN 256 - 2 ^ GranularityIntoU8(g) ELSE 0)]

\* BytesZipper::merge_into of the sub-codes into a chunk of carriers, the
\* carriers behind the chunk left as they are
ZipChunk ==
    /\ call = NoCall
    /\ \E g \in ByteSplitGranularity, pattern \in CarrierPatterns, b \in Byte,
          junk \in BOOLEAN, extra \in 0 .. MaxExtra :
           /\ call' = [op |-> "zip_chunk", granularity |-> g, byte |-> b,
                       carriers |-> Carriers(pattern, ChunkSize(g) + extra),
                       subcodes |-> SubCodes(g, b, junk)]
           /\ ret' = BytesZipper_merge_into(Carriers(pattern, ChunkSize(g) + extra),
                                            SubCodes(g, b, junk), g)
    /\ UNCHANGED <<pc, codec_vars>>

\* merge_bytes(granularity, chunk) on the carriers the zip before it left
MergeChunk ==
    /\ call.op = "zip_chunk"
    /\ call' = [call EXCEPT !.op = "merge_chunk"] @@ [zipped |-> ret]
    /\ ret' = merge_bytes(call.granularity, ret)
    /\ UNCHANGED <<pc, codec_vars>>

NextMerge == ZipChunk \/ MergeChunk

SpecMerge == InitCall /\ [][NextMerge]_vars

\* the byte whose d-bit groups, most significant first, are the low d bits
\* of the first 8/d entries of s
RECURSIVE GroupsValue(_, _, _)
GroupsValue(s, d, i) ==
    IF i > 8 \div d THEN 0
    ELSE (s[i] % (2 ^ d)) * (2 ^ (8 - d * i)) + GroupsValue(s, d, i + 1)

\* C16: merge reads only the low depth bits of each input, so raw carriers
\* can be merged unmasked.  For every granularity g, every 8/depth carriers C
\* and sub-codes s, merge_bytes(g, [zip_bytes(g, C[i], s[i])]) is
\* merge_bytes(g, s), the 8-bit left shifts truncated modulo 256; inputs
\* beyond the first 8/depth are ignored.
MergeReadsLowBits ==
    call.op = "merge_chunk" =>
        /\ ret = merge_bytes(call.granularity, call.subcodes)
        /\ ret = GroupsValue(call.subcodes, GranularityIntoU8(call.granularity), 1)
        /\ ret = call.byte
        /\ ret \in Byte

MergeReadsLowBitsWitness ==
    /\ call.op = "merge_chunk"
    /\ call.granularity = "OneBit"
    /\ call.byte = 167
    /\ call.subcodes[1] = 255
    /\ Len(call.zipped) = 9
    /\ call.zipped[1] = 255
    /\ call.zipped[2] = 254
    /\ ret = 167

====
